---- MODULE Spec2Model ----
(***************************************************************************)
(* A model of armageddon/solver.py: the class Planet, its two fixed-step   *)
(* integrators (forward Euler and RK4) and its post-processing             *)
(* (calculate_energy, analyse_outcome).                                    *)
(*                                                                         *)
(* Numbers.  The program computes in IEEE double precision.  The model     *)
(* computes in binary fixed point: a real x is the integer x * SCALE, each *)
(* operation rounds toward zero, a result too large to hold becomes an     *)
(* infinity and an undefined result becomes NaN, as numpy's float64 does.  *)
(* Every expression of the source is translated operation by operation, in *)
(* the source's order of evaluation.                                       *)
(***************************************************************************)
EXTENDS Integers, Sequences, FiniteSets, TLC

VARIABLES planet, raised, stdout, pc, call, solver, frames, ret, outcome,
          tabfn, rhoq, op

vars == <<planet, raised, stdout, pc, call, solver, frames, ret, outcome,
          tabfn, rhoq, op>>

(***************************************************************************)
(* Bounds of the model.                                                    *)
(***************************************************************************)
\* fraction bits of the fixed-point numbers
FracBits == 2
\* the stepping loop is followed for at most this many iterations
MaxSteps == 6

(***************************************************************************)
(* float64 arithmetic in fixed point.                                      *)
(***************************************************************************)
SCALE == 2 ^ FracBits
FMAX == 2147483647 \div (2 * SCALE)
IntMax == FMAX * SCALE
PInf == FMAX + 1
NInf == -(FMAX + 1)
NaN == FMAX + 2

Num(n) == n * SCALE
Abs(a) == IF a < 0 THEN -a ELSE a
IsFin(a) == a >= -FMAX /\ a <= FMAX
SignInf(s) == IF s > 0 THEN PInf ELSE NInf
TruncDiv(a, b) ==
    IF (a >= 0) = (b > 0) THEN Abs(a) \div Abs(b) ELSE -(Abs(a) \div Abs(b))
Sat(x) == IF x > FMAX THEN PInf ELSE IF x < -FMAX THEN NInf ELSE x

FNeg(a) == IF a = NaN THEN NaN ELSE -a

FAdd(a, b) ==
    IF a = NaN \/ b = NaN THEN NaN
    ELSE IF ~IsFin(a) THEN (IF ~IsFin(b) /\ b # a THEN NaN ELSE a)
    ELSE IF ~IsFin(b) THEN b
    ELSE Sat(a + b)

FSub(a, b) == FAdd(a, FNeg(b))

FMul(a, b) ==
    IF a = NaN \/ b = NaN THEN NaN
    ELSE IF a = 0 \/ b = 0 THEN (IF IsFin(a) /\ IsFin(b) THEN 0 ELSE NaN)
    ELSE IF ~IsFin(a) \/ ~IsFin(b) THEN SignInf(IF (a > 0) = (b > 0) THEN 1 ELSE -1)
    ELSE IF Abs(a) > IntMax \div Abs(b)
         THEN SignInf(IF (a > 0) = (b > 0) THEN 1 ELSE -1)
    ELSE TruncDiv(a * b, SCALE)

FDiv(a, b) ==
    IF a = NaN \/ b = NaN THEN NaN
    ELSE IF b = 0 THEN (IF a = 0 THEN NaN ELSE SignInf(a))
    ELSE IF ~IsFin(a) THEN (IF ~IsFin(b) THEN NaN
                            ELSE SignInf(IF (a > 0) = (b > 0) THEN 1 ELSE -1))
    ELSE IF ~IsFin(b) THEN 0
    ELSE Sat(TruncDiv(a * SCALE, b))

\* comparisons: every comparison with NaN is false
FLe(a, b) == a # NaN /\ b # NaN /\ a <= b
FGe(a, b) == a # NaN /\ b # NaN /\ a >= b
FGt(a, b) == a # NaN /\ b # NaN /\ a > b

FSq(a) == FMul(a, a)
FCube(a) == FMul(FMul(a, a), a)

RECURSIVE ISqrt(_, _, _)
ISqrt(n, lo, hi) ==
    IF lo >= hi THEN lo
    ELSE LET mid == (lo + hi + 1) \div 2
         IN IF mid * mid <= n THEN ISqrt(n, mid, hi) ELSE ISqrt(n, lo, mid - 1)

\* x ** 0.5
FSqrt(a) ==
    IF a = NaN \/ a < 0 THEN NaN
    ELSE IF a = PInf THEN PInf
    ELSE ISqrt(a * SCALE, 0, 46340)

\* the literal 0.5
Half == SCALE \div 2

\* np.pi
FPi == (355 * SCALE) \div 113
HalfPi == FPi \div 2
TwoPi == 2 * FPi

\* sine on the first quadrant: the Taylor polynomial, kept within [0, 1]
SinQ(y) ==
    LET y3 == FCube(y)
        y5 == FMul(FMul(y3, y), y)
        s == y - FDiv(y3, Num(6)) + FDiv(y5, Num(120))
    IN IF s > SCALE THEN SCALE ELSE IF s < 0 THEN 0 ELSE s

\* np.sin
FSin(x) ==
    IF ~IsFin(x) THEN NaN
    ELSE LET r == x % TwoPi
             h == IF r >= FPi THEN r - FPi ELSE r
             q == IF h > HalfPi THEN FPi - h ELSE h
         IN IF r >= FPi THEN -SinQ(q) ELSE SinQ(q)

\* np.cos
FCos(x) == IF ~IsFin(x) THEN NaN ELSE FSin((x % TwoPi) + HalfPi)

RECURSIVE ExpPos(_)
ExpPos(x) ==
    IF x <= SCALE
    THEN SCALE + x + (FSq(x) \div 2) + (FCube(x) \div 6)
    ELSE LET h == ExpPos(x \div 2) IN FMul(h, h)

\* np.exp
FExp(x) ==
    IF x = NaN THEN NaN
    ELSE IF x = PInf THEN PInf
    ELSE IF x = NInf THEN 0
    ELSE IF x >= 0 THEN ExpPos(x)
    ELSE FDiv(Num(1), ExpPos(-x))

(***************************************************************************)
(* Planet.__init__                                                         *)
(***************************************************************************)
AtmosFuncs == {"exponential", "tabular", "constant", "linear"}

\* the planets of the model: Cd, Ch, Q, Cl, alpha, Rp, g, H, rho0, all > 0
PlanetConstants ==
    { [Cd |-> k, Ch |-> k, Q |-> k, Cl |-> Num(1), alpha |-> Num(1),
       Rp |-> Num(64), g |-> Num(1), H |-> Num(4), rho0 |-> Num(1)] :
      k \in {1, Num(1)} }

\* the value of self.rhoa: which density function the constructor chose
\* (none when the call of create_tabular_density raises)
RhoaChoice(atmos_func) ==
    IF atmos_func = "exponential" THEN "exponential"
    ELSE IF atmos_func = "tabular" THEN "unset"
    ELSE "constant"

\* what the constructor raises: create_tabular_density is defined with the
\* parameter atmos_filename and called with the keyword filename
ConstructorRaises(atmos_func) ==
    IF atmos_func = "tabular" THEN "TypeError" ELSE "none"

\* what the constructor prints
ConstructorOutput(atmos_func) ==
    IF atmos_func \in {"exponential", "tabular", "constant"} THEN << >>
    ELSE << "atmos_func not implemented yet.",
            "Falling back to constant density atmosphere for now" >>

\* the fields after the constructor; an empty sequence stands for the
\* placeholder -1 of a field that is not yet a list, strength and density
\* do not exist before the first run
PlanetInit(atmos_func, c) ==
    [Cd |-> c.Cd, Ch |-> c.Ch, Q |-> c.Q, Cl |-> c.Cl, alpha |-> c.alpha,
     Rp |-> c.Rp, g |-> c.g, H |-> c.H, rho0 |-> c.rho0,
     atmos_func |-> atmos_func,
     velocity |-> << >>, mass |-> << >>, angle |-> << >>, altitude |-> << >>,
     distance |-> << >>, radius |-> << >>, alltimestep |-> << >>,
     burstpoint |-> -1, strength |-> 0, density |-> 0,
     rhoa |-> RhoaChoice(atmos_func)]

\* self.rhoa(x) for the exponential and the constant atmosphere
Rhoa(self, x) ==
    IF self.rhoa = "exponential"
    THEN FMul(self.rho0, FExp(FDiv(FNeg(x), self.H)))
    ELSE self.rho0

(***************************************************************************)
(* The derivative and the two steppers.                                    *)
(***************************************************************************)
Last(s) == s[Len(s)]

\* F(e), with e evaluated once
Bind(e, F(_)) == CHOOSE r \in {F(x) : x \in {e}} : TRUE

\* dmdt = -self.Ch * rhoAv * velocity**2 / (2 * self.Q)
dmdt(self, rhoAv, velocity) ==
    FDiv(FMul(FMul(FNeg(self.Ch), rhoAv), FSq(velocity)), FMul(Num(2), self.Q))

\* the right-hand sides of the six equations at angle, radius, altitude,
\* velocity, mass, given rhoa = self.rhoa(altitude) and the two circular
\* functions of the angle; burst says whether ram exceeds self.strength
Rates(self, vs, rhoa, cos_theta, sin_theta) ==
    LET radius == vs[2]
        altitude == vs[3]
        velocity == vs[4]
        mass == vs[5]
        area == FMul(FPi, FSq(radius))
        ram == FMul(rhoa, FSq(velocity))
        burst == FGt(ram, self.strength)
    IN Bind(FMul(FMul(rhoa, area), velocity), LAMBDA rhoAv :
        [dvdt |-> FAdd(FDiv(FMul(FMul(FNeg(self.Cd), rhoAv), velocity),
                            FMul(Num(2), mass)),
                       FMul(self.g, sin_theta)),
         dmdt |-> dmdt(self, rhoAv, velocity),
         dthetadt |-> FSub(FAdd(FDiv(FMul(FNeg(self.Cl), rhoAv),
                                     FMul(Num(2), mass)),
                                FDiv(FMul(self.g, cos_theta), velocity)),
                           FDiv(FMul(velocity, cos_theta),
                                FAdd(self.Rp, altitude))),
         dzdt |-> FMul(FNeg(velocity), sin_theta),
         dxdt |-> FDiv(FMul(velocity, cos_theta),
                       FAdd(Num(1), FDiv(altitude, self.Rp))),
         burst |-> burst,
         drdt |-> IF burst
                  THEN FMul(FSqrt(FDiv(FDiv(FMul(FMul(Num(7), rhoa),
                                                 self.alpha),
                                            Num(2)),
                                       self.density)),
                            velocity)
                  ELSE 0])

\* the value of self.burstpoint after a derivative evaluation
BurstPoint(self, burst) ==
    IF burst /\ self.burstpoint = -1 THEN Len(self.distance)
    ELSE self.burstpoint

\* calculator_rk4: the derivative at variables = <<angle, radius, altitude,
\* velocity, mass, distance>>, and the value self.burstpoint has afterwards
calculator_rk4(self, variables) ==
    Bind(Rates(self, variables, Rhoa(self, variables[3]),
               FCos(variables[1]), FSin(variables[1])),
         LAMBDA d :
           [result |-> <<d.dthetadt, d.drdt, d.dzdt, d.dvdt, d.dmdt, d.dxdt>>,
            burstpoint |-> BurstPoint(self, d.burst)])

\* variables + c * k, componentwise
Stage(variables, c, k) ==
    <<FAdd(variables[1], FMul(c, k[1])), FAdd(variables[2], FMul(c, k[2])),
      FAdd(variables[3], FMul(c, k[3])), FAdd(variables[4], FMul(c, k[4])),
      FAdd(variables[5], FMul(c, k[5])), FAdd(variables[6], FMul(c, k[6]))>>

\* (k1 + 2 * k2 + 2 * k3 + k4) * timestep / 6, one component
Change(a, b, c, d, timestep) ==
    FDiv(FMul(FAdd(FAdd(FAdd(a, FMul(Num(2), b)), FMul(Num(2), c)), d),
              timestep),
         Num(6))

\* the four stages of RK4_helper: each stage's point and derivative, and
\* the value of self.burstpoint after it
Stages(self, timestep) ==
    LET variables == <<Last(self.angle), Last(self.radius),
                       Last(self.altitude), Last(self.velocity),
                       Last(self.mass), Last(self.distance)>>
        half == FMul(Half, timestep)
        at(bp, vs) == calculator_rk4([self EXCEPT !.burstpoint = bp], vs)
    IN Bind(at(self.burstpoint, variables), LAMBDA c1 :
       Bind(Stage(variables, half, c1.result), LAMBDA v2 :
       Bind(at(c1.burstpoint, v2), LAMBDA c2 :
       Bind(Stage(variables, half, c2.result), LAMBDA v3 :
       Bind(at(c2.burstpoint, v3), LAMBDA c3 :
       Bind(Stage(variables, timestep, c3.result), LAMBDA v4 :
       Bind(at(c3.burstpoint, v4), LAMBDA c4 :
         [k |-> <<c1.result, c2.result, c3.result, c4.result>>,
          at |-> <<variables, v2, v3, v4>>,
          burstpoint |-> c4.burstpoint])))))))

\* RK4_helper: the change of each variable over one timestep, and the value
\* self.burstpoint has after the four calls of calculator_rk4
RK4_helper(self, timestep) ==
    Bind(Stages(self, timestep), LAMBDA st :
      [change |-> <<Change(st.k[1][1], st.k[2][1], st.k[3][1], st.k[4][1], timestep),
                    Change(st.k[1][2], st.k[2][2], st.k[3][2], st.k[4][2], timestep),
                    Change(st.k[1][3], st.k[2][3], st.k[3][3], st.k[4][3], timestep),
                    Change(st.k[1][4], st.k[2][4], st.k[3][4], st.k[4][4], timestep),
                    Change(st.k[1][5], st.k[2][5], st.k[3][5], st.k[4][5], timestep),
                    Change(st.k[1][6], st.k[2][6], st.k[3][6], st.k[4][6], timestep)>>,
       burstpoint |-> st.burstpoint])

\* the lists of the run before kept, the new run appended to them
StartListsKeep(self, radius, velocity, angle, init_altitude) ==
    [self EXCEPT
       !.velocity = Append(@, velocity),
       !.mass = Append(@, FMul(FMul(FMul(FDiv(Num(4), Num(3)), FPi),
                                    FCube(radius)),
                               self.density)),
       !.angle = Append(@, angle),
       !.altitude = Append(@, init_altitude),
       !.distance = Append(@, 0),
       !.radius = Append(@, radius),
       !.alltimestep = Append(@, 0)]

\* the assignments that start a run (the same in both steppers)
StartLists(self, radius, velocity, angle, init_altitude) ==
    [self EXCEPT
       !.velocity = <<velocity>>,
       !.mass = <<FMul(FMul(FMul(FDiv(Num(4), Num(3)), FPi), FCube(radius)),
                       self.density)>>,
       !.angle = <<angle>>,
       !.altitude = <<init_altitude>>,
       !.distance = <<0>>,
       !.radius = <<radius>>,
       !.alltimestep = <<0>>]

\* one iteration of the loop of solve_atmospheric_entry_RK4, up to its test
RK4Step(self, dt) ==
    Bind(RK4_helper(self, dt), LAMBDA h :
      [self EXCEPT
          !.burstpoint = h.burstpoint,
          !.velocity = Append(@, FAdd(h.change[4], Last(self.velocity))),
          !.mass = Append(@, FAdd(h.change[5], Last(self.mass))),
          !.altitude = Append(@, FAdd(h.change[3], Last(self.altitude))),
          !.angle = Append(@, FAdd(h.change[1], Last(self.angle))),
          !.distance = Append(@, FAdd(h.change[6], Last(self.distance))),
          !.radius = Append(@, FAdd(h.change[2], Last(self.radius))),
          !.alltimestep = Append(@, FAdd(dt, Last(self.alltimestep)))])

\* one iteration of the loop of solve_atmospheric_entry_FE, up to its test
FEStep(self, timestep) ==
    Bind(Rates(self,
               <<Last(self.angle), Last(self.radius), Last(self.altitude),
                 Last(self.velocity), Last(self.mass), Last(self.distance)>>,
               Rhoa(self, Last(self.altitude)),
               FCos(Last(self.angle)), FSin(Last(self.angle))),
         LAMBDA d :
      [self EXCEPT
          !.burstpoint = BurstPoint(self, d.burst),
          !.velocity = Append(@, FAdd(FMul(d.dvdt, timestep), Last(self.velocity))),
          !.mass = Append(@, FAdd(FMul(d.dmdt, timestep), Last(self.mass))),
          !.altitude = Append(@, FAdd(FMul(d.dzdt, timestep), Last(self.altitude))),
          !.angle = Append(@, FAdd(FMul(d.dthetadt, timestep), Last(self.angle))),
          !.distance = Append(@, FAdd(FMul(d.dxdt, timestep), Last(self.distance))),
          !.radius = Append(@, FAdd(FMul(d.drdt, timestep), Last(self.radius))),
          !.alltimestep = Append(@, FAdd(timestep, Last(self.alltimestep)))])

\* the test that ends the loop, on the state just appended
Break(self, init_altitude) ==
    \/ FLe(Last(self.altitude), 0)
    \/ FLe(Last(self.mass), 0)
    \/ FLe(Last(self.radius), 0)
    \/ FLe(Last(self.velocity), 0)
    \/ FGe(Last(self.altitude), init_altitude)

(***************************************************************************)
(* solve_atmospheric_entry                                                 *)
(***************************************************************************)
\* the arguments of the calls of the model; backend "omitted" is a call
\* that passes no backend
Backends == {"FE", "RK4", "Euler", "omitted"}
AngleArgs == { [angle |-> Num(45), radians |-> FALSE],
               [angle |-> HalfPi, radians |-> TRUE] }
CallArgs ==
    { [radius |-> Num(1), velocity |-> v, density |-> Num(4), strength |-> s,
       angle |-> a.angle, init_altitude |-> Num(6), dt |-> Num(1),
       radians |-> a.radians, backend |-> b] :
      v \in {Half, Num(2)}, s \in {Num(2), Num(16)}, a \in AngleArgs,
      b \in Backends }

\* the default the docstring names
BackendOfDocstring(args) ==
    IF args.backend = "omitted" THEN "FE" ELSE args.backend

\* the backend parameter with its default
BackendOf(args) == IF args.backend = "omitted" THEN "RK4" ELSE args.backend

\* an unsupported name falling back to RK4
SolverChoiceFallbackRK4(backend) ==
    IF backend = "FE" THEN "FE" ELSE "RK4"

\* the stepper the call selects
SolverChoice(backend) ==
    IF backend = "FE" THEN "FE"
    ELSE IF backend = "RK4" THEN "RK4"
    ELSE "FE"

\* what the selection of the stepper prints
SolverOutput(backend) ==
    IF backend = "FE" \/ backend = "RK4" THEN << >>
    ELSE << "solving method not implemented yet.",
            "Falling back to FE for now" >>

\* the angle the steppers get
AngleIn(args) ==
    IF ~args.radians THEN FMul(FDiv(args.angle, Num(180)), FPi)
    ELSE args.angle

\* the call up to the stepper's loop
SolveStart(self, args) ==
    StartLists([self EXCEPT !.strength = args.strength,
                            !.density = args.density,
                            !.burstpoint = -1],
               args.radius, args.velocity, AngleIn(args), args.init_altitude)

\* one iteration of the selected stepper
SolveStep(self, slv, dt) ==
    IF slv = "RK4" THEN RK4Step(self, dt) ELSE FEStep(self, dt)

\* every element but the last
ButLast(s) == SubSeq(s, 1, Len(s) - 1)

\* the table with the terminating row kept
DataFrameWhole(self, args) ==
    [columns |-> <<"velocity", "mass", "angle", "altitude", "distance",
                   "radius", "time">>,
     velocity |-> self.velocity,
     mass |-> self.mass,
     angle |-> IF ~args.radians
               THEN [i \in 1..Len(self.angle) |->
                       FMul(FDiv(self.angle[i], FPi), Num(180))]
               ELSE self.angle,
     altitude |-> self.altitude,
     distance |-> self.distance,
     radius |-> self.radius,
     time |-> self.alltimestep,
     dedz |-> << >>]

\* the DataFrame the call returns
DataFrame(self, args) ==
    LET all_angle == IF ~args.radians
                     THEN [i \in 1..Len(self.angle) |->
                             FMul(FDiv(self.angle[i], FPi), Num(180))]
                     ELSE self.angle
    IN [columns |-> <<"velocity", "mass", "angle", "altitude", "distance",
                      "radius", "time">>,
        velocity |-> ButLast(self.velocity),
        mass |-> ButLast(self.mass),
        angle |-> ButLast(all_angle),
        altitude |-> ButLast(self.altitude),
        distance |-> ButLast(self.distance),
        radius |-> ButLast(self.radius),
        time |-> ButLast(self.alltimestep),
        dedz |-> << >>]

\* the stepper's loop run to its break from self, for at most n iterations;
\* done says whether the break was reached
RECURSIVE SolveLoop(_, _, _, _, _)
SolveLoop(self, slv, init_altitude, dt, n) ==
    IF n = 0 THEN [self |-> self, done |-> FALSE]
    ELSE Bind(SolveStep(self, slv, dt), LAMBDA next :
           IF Break(next, init_altitude) THEN [self |-> next, done |-> TRUE]
           ELSE SolveLoop(next, slv, init_altitude, dt, n - 1))

\* a whole call on self: the object when the stepper returns
SolveRun(self, args) ==
    SolveLoop(SolveStart(self, args), SolverChoice(BackendOf(args)),
              args.init_altitude, args.dt, MaxSteps)

NoCall == [radius |-> 0, velocity |-> 0, density |-> 0, strength |-> 0,
           angle |-> 0, init_altitude |-> 0, dt |-> 0, radians |-> FALSE,
           backend |-> "omitted"]
NoOutcome == [outcome |-> "none", burst_peak_dedz |-> 0, burst_altitude |-> 0,
              burst_distance |-> 0, burst_energy |-> 0]
NoTab == [X |-> << >>, Y |-> << >>]
NoRho == [f |-> "none", x |-> 0, rho |-> 0]

Init ==
    \E atmos_func \in AtmosFuncs, c \in PlanetConstants :
        /\ planet = PlanetInit(atmos_func, c)
        /\ raised = ConstructorRaises(atmos_func)
        /\ stdout = [init |-> ConstructorOutput(atmos_func), solve |-> << >>]
        /\ pc = IF ConstructorRaises(atmos_func) = "none" THEN "idle"
                ELSE "raised"
        /\ call = NoCall
        /\ solver = "none"
        /\ frames = << >>
        /\ ret = 0
        /\ outcome = NoOutcome
        /\ tabfn = NoTab
        /\ rhoq = NoRho
        /\ op = "none"

\* a call of solve_atmospheric_entry, up to the loop of its stepper; the
\* caller keeps the table of the call before and drops the older ones
Call ==
    /\ pc = "idle"
    /\ \E args \in CallArgs :
         /\ call' = args
         /\ planet' = SolveStart(planet, args)
         /\ solver' = SolverChoice(BackendOf(args))
         /\ stdout' = [stdout EXCEPT !.solve = SolverOutput(BackendOf(args))]
    /\ frames' = IF Len(frames) > 1 THEN Tail(frames) ELSE frames
    /\ ret' = 0
    /\ pc' = "loop"
    /\ UNCHANGED <<raised, outcome, tabfn, rhoq, op>>

\* one iteration of the stepper's loop
LoopStep ==
    /\ pc = "loop"
    /\ Len(planet.velocity) <= MaxSteps
    /\ planet' = SolveStep(planet, solver, call.dt)
    /\ pc' = IF Break(planet', call.init_altitude) THEN "return" ELSE "loop"
    /\ UNCHANGED <<raised, stdout, call, solver, frames, ret, outcome, tabfn,
                   rhoq, op>>

\* the call returns its table
Return ==
    /\ pc = "return"
    /\ frames' = Append(frames, [df |-> DataFrame(planet, call), args |-> call])
    /\ ret' = Len(frames')
    /\ pc' = "idle"
    /\ UNCHANGED <<planet, raised, stdout, call, solver, outcome, tabfn, rhoq,
                   op>>

Next == Call \/ LoopStep \/ Return

Spec == Init /\ [][Next]_vars

(***************************************************************************)
(* calculate_energy and analyse_outcome.  The two divisors 4.184*10**9 and *)
(* 4.184*10**12 are outside the range of the model's numbers: the model    *)
(* keeps their ratio of 1000 and takes 2 for the first.                    *)
(***************************************************************************)
EnergyPerKm == Num(2)
EnergyUnit == Num(2000)

\* the sequence s with f applied to each element
Map(s, f(_)) == [i \in 1..Len(s) |-> f(s[i])]

\* the column without the final negation
DedzColumnNotNegated(df) ==
    LET ke == [i \in 1..Len(df.mass) |->
                 FMul(FMul(Half, df.mass[i]), FSq(df.velocity[i]))]
        temp == [i \in 1..(Len(ke) - 1) |->
                   FDiv(FDiv(FSub(ke[i + 1], ke[i]),
                             FSub(df.altitude[i], df.altitude[i + 1])),
                        EnergyPerKm)]
    IN <<0>> \o temp

\* the column calculate_energy inserts: -temp, after temp got a leading 0
DedzColumn(df) ==
    LET ke == [i \in 1..Len(df.mass) |->
                 FMul(FMul(Half, df.mass[i]), FSq(df.velocity[i]))]
        temp == [i \in 1..(Len(ke) - 1) |->
                   FDiv(FDiv(FSub(ke[i + 1], ke[i]),
                             FSub(df.altitude[i], df.altitude[i + 1])),
                        EnergyPerKm)]
    IN Map(<<0>> \o temp, FNeg)

\* result.insert(len(result.columns), 'dedz', ...) raises when the column
\* exists
InsertRaises(df) ==
    IF \E i \in 1..Len(df.columns) : df.columns[i] = "dedz"
    THEN "ValueError" ELSE "none"

\* the scan for the maximum that keeps the last of equal values
RECURSIVE IdxMaxLast(_, _, _)
IdxMaxLast(s, i, best) ==
    IF i > Len(s) THEN best
    ELSE IF s[i] = NaN THEN IdxMaxLast(s, i + 1, best)
    ELSE IF best = 0 \/ s[i] >= s[best] THEN IdxMaxLast(s, i + 1, i)
    ELSE IdxMaxLast(s, i + 1, best)

\* Series.idxmax: the position (from 1) of the first maximum, NaN skipped;
\* 0 when there is none
RECURSIVE IdxMax(_, _, _)
IdxMax(s, i, best) ==
    IF i > Len(s) THEN best
    ELSE IF s[i] = NaN THEN IdxMax(s, i + 1, best)
    ELSE IF best = 0 \/ s[i] > s[best] THEN IdxMax(s, i + 1, i)
    ELSE IdxMax(s, i + 1, best)

\* max(a, b) of Python
PyMax(a, b) == IF FGt(b, a) THEN b ELSE a

\* the dictionary analyse_outcome returns, burstidx counted from 1
Outcome(df, burstidx) ==
    LET initial_energy == FDiv(FMul(FMul(Half, df.mass[1]),
                                    FSq(df.velocity[1])),
                               EnergyUnit)
        burstenergy == FDiv(FMul(FMul(Half, df.mass[burstidx]),
                                 FSq(df.velocity[burstidx])),
                            EnergyUnit)
    IN IF burstidx - 1 = Len(df.mass) - 1
       THEN [outcome |-> "Cratering",
             burst_peak_dedz |-> df.dedz[burstidx],
             burst_altitude |-> 0,
             burst_distance |-> df.distance[burstidx],
             burst_energy |-> PyMax(burstenergy,
                                    FSub(initial_energy, burstenergy))]
       ELSE [outcome |-> "Airburst",
             burst_peak_dedz |-> df.dedz[burstidx],
             burst_altitude |-> df.altitude[burstidx],
             burst_distance |-> df.distance[burstidx],
             burst_energy |-> FSub(initial_energy, burstenergy)]

\* calculate_energy(result) on the table frames[i]
CalculateEnergy ==
    /\ pc = "idle"
    /\ \E i \in 1..Len(frames) :
         /\ op' = "calculate_energy"
         /\ raised' = InsertRaises(frames[i].df)
         /\ IF InsertRaises(frames[i].df) = "none"
            THEN /\ frames' = [frames EXCEPT
                                 ![i].df.columns = Append(@, "dedz"),
                                 ![i].df.dedz = DedzColumn(frames[i].df)]
                 /\ ret' = i
            ELSE UNCHANGED <<frames, ret>>
    /\ UNCHANGED <<planet, stdout, pc, call, solver, outcome, tabfn, rhoq>>

\* analyse_outcome(result) on the table frames[i]
AnalyseOutcome ==
    /\ pc = "idle"
    /\ \E i \in 1..Len(frames) :
         LET df == frames[i].df
             has == \E k \in 1..Len(df.columns) : df.columns[k] = "dedz"
             burstidx == IF has THEN IdxMax(df.dedz, 1, 0) ELSE 0
         IN /\ op' = "analyse_outcome"
            /\ ret' = i
            /\ raised' = IF ~has THEN "KeyError"
                         ELSE IF burstidx = 0 THEN "ValueError" ELSE "none"
            /\ outcome' = IF has /\ burstidx > 0 THEN Outcome(df, burstidx)
                          ELSE outcome
    /\ UNCHANGED <<planet, stdout, pc, call, solver, frames, tabfn, rhoq>>

\* the tables of the model: up to MaxRows rows
MaxRows == 3
Col(n, S) == [1..n -> S]
Filler(n) == [i \in 1..n |-> 0]
TablesWithoutDedz ==
    UNION { { [columns |-> <<"velocity", "mass", "angle", "altitude",
                             "distance", "radius", "time">>,
               velocity |-> v, mass |-> m, angle |-> Filler(n),
               altitude |-> z, distance |-> [i \in 1..n |-> Num(i - 1)],
               radius |-> Filler(n), time |-> Filler(n), dedz |-> << >>] :
              v \in Col(n, {Num(1), Num(2)}), m \in Col(n, {Num(1), Num(2)}),
              z \in Col(n, {Num(1), Num(2), Num(3)}) } : n \in 1..MaxRows }
TablesWithDedz ==
    UNION { { [columns |-> <<"velocity", "mass", "angle", "altitude",
                             "distance", "radius", "time", "dedz">>,
               velocity |-> [i \in 1..n |-> Num(2)],
               mass |-> [i \in 1..n |-> Num(n + 1 - i)],
               angle |-> Filler(n),
               altitude |-> [i \in 1..n |-> Num(n + 1 - i)],
               distance |-> [i \in 1..n |-> Num(i - 1)],
               radius |-> Filler(n), time |-> Filler(n), dedz |-> d] :
              d \in Col(n, {-1, 0, Num(1), NaN}) } : n \in 1..MaxRows }

InitAnalysis ==
    /\ planet = PlanetInit("exponential",
                           CHOOSE c \in PlanetConstants : c.Q = Num(1))
    /\ raised = "none"
    /\ stdout = [init |-> << >>, solve |-> << >>]
    /\ pc = "idle"
    /\ call = NoCall
    /\ solver = "none"
    /\ \E t \in TablesWithoutDedz \cup TablesWithDedz :
         frames = << [df |-> t, args |-> NoCall] >>
    /\ ret = 0
    /\ outcome = NoOutcome
    /\ tabfn = NoTab
    /\ rhoq = NoRho
    /\ op = "none"

NextAnalysis == CalculateEnergy \/ AnalyseOutcome

SpecAnalysis == InitAnalysis /\ [][NextAnalysis]_vars

(***************************************************************************)
(* The density functions.                                                  *)
(***************************************************************************)
\* the polynomial of tabular_density at 0, 10, ..., 120 km, in millionths
\* of a kg/m^3 (1.225 - 9.910220744570666e-05*x + ... +
\* 6.044604125297617e-57*x**12 evaluated in double precision)
PolynomialMicro ==
    <<1225000, 414361, 88202, 23918, 5835, -858, -83, 111, 16, 29, 22571, 834463, 11201767>>

\* the altitudes, in m, the density functions are called with
AltitudeStep == Num(10000)
Altitudes == { k * AltitudeStep : k \in 0..12 }

\* tabular_density(x) of create_tabular_density, for x among Altitudes
tabular_density(x) ==
    TruncDiv(PolynomialMicro[(x \div AltitudeStep) + 1] * SCALE, 1000000)

\* the tables a file can hold: altitude (m) and density, altitude ascending
DensityTables ==
    { [X |-> <<0, Num(10000), Num(20000)>>,
       Y |-> <<TruncDiv(1225 * SCALE, 1000), TruncDiv(414 * SCALE, 1000),
               TruncDiv(88 * SCALE, 1000)>>],
      [X |-> <<0, Num(40000), Num(80000)>>, Y |-> <<Num(2), Num(1), 0>>],
      [X |-> <<0, Num(60000), Num(120000)>>, Y |-> <<Num(4), Num(2), Num(1)>>] }

\* create_tabular_density(atmos_filename) called on the object: the lists
\* X and Y read from the file, which the function returned closes over
CreateTabularDensity ==
    /\ pc = "idle"
    /\ \E t \in DensityTables : tabfn' = t
    /\ op' = "create_tabular_density"
    /\ UNCHANGED <<planet, raised, stdout, pc, call, solver, frames, ret,
                   outcome, rhoq>>

\* a call of the function create_tabular_density returned
TabularDensityCall ==
    /\ pc = "idle"
    /\ tabfn # NoTab
    /\ \E x \in Altitudes :
         rhoq' = [f |-> "tabular", x |-> x, rho |-> tabular_density(x)]
    /\ op' = "tabular_density"
    /\ UNCHANGED <<planet, raised, stdout, pc, call, solver, frames, ret,
                   outcome, tabfn>>

\* a call of self.rhoa
RhoaCall ==
    /\ pc = "idle"
    /\ \E x \in Altitudes :
         rhoq' = [f |-> planet.rhoa, x |-> x, rho |-> Rhoa(planet, x)]
    /\ op' = "rhoa"
    /\ UNCHANGED <<planet, raised, stdout, pc, call, solver, frames, ret,
                   outcome, tabfn>>

NextAtmos == CreateTabularDensity \/ TabularDensityCall \/ RhoaCall

SpecAtmos == Init /\ [][NextAtmos]_vars

(***************************************************************************)
(* Properties of solve_atmospheric_entry.                                  *)
(***************************************************************************)
\* a call has returned and its table is frames[ret]
Returned == pc = "idle" /\ ret > 0
\* a call has been made
Called == pc \in {"loop", "return"} \/ ret > 0

StopCond(altitude, mass, radius, velocity, init_altitude) ==
    \/ FLe(altitude, 0) \/ FLe(mass, 0) \/ FLe(radius, 0) \/ FLe(velocity, 0)
    \/ FGe(altitude, init_altitude)

StopsAt(self, i, init_altitude) ==
    StopCond(self.altitude[i], self.mass[i], self.radius[i], self.velocity[i],
             init_altitude)

\* C1: the loop stops at the first state it produces that satisfies the
\* stopping condition, and the table returned holds exactly the states
\* before that one: the condition holds at the state after the last row,
\* that state is not in the table, and no row but row 0 satisfies it.
C1_StopsAtFirstAndExcludesIt ==
    /\ pc = "loop" =>
         \A i \in 2..Len(planet.altitude) : ~StopsAt(planet, i, call.init_altitude)
    /\ pc = "return" => StopsAt(planet, Len(planet.altitude), call.init_altitude)
    /\ Returned =>
         LET df == frames[ret].df
             n == Len(df.altitude)
         IN /\ n >= 1
            /\ Len(planet.altitude) = n + 1
            /\ df.altitude = SubSeq(planet.altitude, 1, n)
            /\ df.mass = SubSeq(planet.mass, 1, n)
            /\ df.radius = SubSeq(planet.radius, 1, n)
            /\ df.velocity = SubSeq(planet.velocity, 1, n)
            /\ df.distance = SubSeq(planet.distance, 1, n)
            /\ df.time = SubSeq(planet.alltimestep, 1, n)
            /\ Len(df.angle) = n
            /\ StopsAt(planet, n + 1, call.init_altitude)
            /\ \A i \in 2..n :
                 ~StopCond(df.altitude[i], df.mass[i], df.radius[i],
                           df.velocity[i], call.init_altitude)

C1_Witness ==
    /\ Returned
    /\ Len(frames[ret].df.altitude) >= 3
    /\ FLe(Last(planet.altitude), 0)

\* the table a call with args returns on a Planet just constructed like
\* this one
FreshPlanet == PlanetInit(planet.atmos_func, planet)
FreshRun(args) == SolveRun(FreshPlanet, args)
FreshTable(args) == DataFrame(FreshRun(args).self, args)

\* C3: an unknown atmos_func gives the density rho0 at every altitude, an
\* unsupported backend runs the explicit Euler stepper; both print a
\* warning, neither raises, and the call returns the table of the Euler
\* stepper.
C3_UnknownNamesFallBack ==
    /\ planet.atmos_func \notin {"exponential", "tabular", "constant"} =>
         /\ raised = "none"
         /\ stdout.init # << >>
         /\ \A z \in {Num(k) : k \in -2..8} \cup {NInf, PInf} :
              Rhoa(planet, z) = planet.rho0
    /\ Called /\ BackendOf(call) \notin {"FE", "RK4"} =>
         /\ raised = "none"
         /\ stdout.solve # << >>
         /\ solver = "FE"
         /\ pc = "loop" => Len(planet.velocity) <= MaxSteps
         /\ Returned => frames[ret].df = FreshTable([call EXCEPT !.backend = "FE"])

C3_Witness ==
    /\ Returned
    /\ planet.atmos_func = "linear"
    /\ call.backend = "Euler"
    /\ Len(frames[ret].df.altitude) >= 2

C6_MassNeverIncreases ==
    Returned =>
      LET mass == frames[ret].df.mass
      IN \A i \in 1..(Len(mass) - 1) : FLe(mass[i + 1], mass[i])

\* C7: the table a call returns is the table the same call returns on a
\* Planet just constructed with the same constants, whatever calls were
\* made before on the object; the burstpoint it leaves is that of the
\* fresh run; and a table returned earlier is still that table after a
\* later call.
C7_RunsAreIndependent ==
    pc = "idle" =>
      /\ \A i \in 1..Len(frames) : frames[i].df = FreshTable(frames[i].args)
      /\ ret > 0 => /\ FreshRun(call).done
                    /\ planet.burstpoint = FreshRun(call).self.burstpoint
                    /\ planet.strength = call.strength
                    /\ planet.density = call.density

C7_Witness ==
    /\ Returned
    /\ Len(frames) = 2
    /\ frames[1].args.strength < frames[2].args.strength
    /\ frames[1].args.velocity # frames[2].args.velocity
    /\ frames[1].args.backend # frames[2].args.backend
    /\ planet.burstpoint = -1
    /\ Len(frames[1].df.mass) # Len(frames[2].df.mass)

\* ram pressure exceeds strength at row i of the run
RamExceeds(i) ==
    FGt(FMul(Rhoa(planet, planet.altitude[i]), FSq(planet.velocity[i])),
        planet.strength)

\* C10 as stated: at the end of a run burstpoint is -1 if and only if no
\* state of the trajectory had ram pressure above strength, and otherwise
\* is the index (from 0) of the first such state.
C10_BurstpointIsFirstExceedingState ==
    Returned =>
      LET rows == 1..Len(frames[ret].df.mass)
          over == {i \in rows : RamExceeds(i)}
      IN IF over = {} THEN planet.burstpoint = -1
         ELSE \E i \in over : /\ \A j \in over : i <= j
                              /\ planet.burstpoint = i - 1

\* the values of row i that the next iteration of the loop and its break
\* test read: angle, radius, altitude, velocity, mass
LoopState(self, i) ==
    <<self.angle[i], self.radius[i], self.altitude[i], self.velocity[i],
      self.mass[i]>>

\* the loop has produced a row that did not end it and that repeats, in
\* every value the next iteration reads, the row it was computed from: each
\* later iteration computes the same row again and the break test, false
\* now, stays false
LoopRepeats ==
    /\ pc = "loop"
    /\ Len(planet.velocity) >= 2
    /\ LoopState(planet, Len(planet.velocity)) =
         LoopState(planet, Len(planet.velocity) - 1)

\* C11 as stated: every run with positive arguments and positive planet
\* constants reaches a state satisfying the stopping condition after
\* finitely many steps and returns; so no run comes to an iteration that
\* leaves the loop's state as it was without satisfying the stopping
\* condition, since such a run has no later state that differs.
C11_EveryRunReachesTheStoppingCondition == ~LoopRepeats

(***************************************************************************)
(* Properties of calculate_energy and analyse_outcome.                     *)
(***************************************************************************)
\* analyse_outcome has just returned a dictionary for the table frames[ret]
Analysed == op = "analyse_outcome" /\ raised = "none"
\* calculate_energy has just returned the table frames[ret]
EnergyAdded == op = "calculate_energy" /\ raised = "none"

\* i is the first row holding the greatest dedz of the table
FirstMaximum(df, i) ==
    /\ df.dedz[i] # NaN
    /\ \A j \in 1..Len(df.dedz) : df.dedz[j] # NaN => df.dedz[j] <= df.dedz[i]
    /\ \A j \in 1..(i - 1) : df.dedz[j] # NaN => df.dedz[j] < df.dedz[i]

\* C2: the outcome is Cratering exactly when the first row holding the
\* greatest dedz is the last row of the table, and Airburst otherwise;
\* burst_altitude is 0 for Cratering and the altitude of that row for
\* Airburst.
C2_CrateringIffMaximumIsLastRow ==
    Analysed =>
      LET df == frames[ret].df
          n == Len(df.dedz)
      IN \E i \in 1..n :
           /\ FirstMaximum(df, i)
           /\ outcome.outcome = IF i = n THEN "Cratering" ELSE "Airburst"
           /\ outcome.burst_altitude = IF i = n THEN 0 ELSE df.altitude[i]

\* the greatest dedz is held by the first and by the last row of a table of
\* three rows, and the outcome is an airburst at the altitude of the first
C2_Witness ==
    /\ Analysed
    /\ LET df == frames[ret].df
       IN /\ Len(df.dedz) = 3
          /\ df.dedz[1] = Num(1) /\ df.dedz[2] = 0 /\ df.dedz[3] = Num(1)
          /\ outcome.outcome = "Airburst"
          /\ outcome.burst_altitude = df.altitude[1]
          /\ df.altitude[1] # 0

\* kinetic energy of row i
KE(df, i) == FMul(FMul(Half, df.mass[i]), FSq(df.velocity[i]))

\* C5 as stated: dedz of row i+1 is -(KE[i+1]-KE[i]) / (altitude[i+1] -
\* altitude[i]) divided by 4.184e9.
C5_DedzHasTheSignOfTheStatedFormula ==
    EnergyAdded =>
      LET df == frames[ret].df
      IN \A i \in 1..(Len(df.mass) - 1) :
           df.dedz[i + 1] =
             FDiv(FDiv(FNeg(FSub(KE(df, i + 1), KE(df, i))),
                       FSub(df.altitude[i + 1], df.altitude[i])),
                  EnergyPerKm)

\* C5, amended: dedz of row 0 is 0 and dedz of row i+1 is the kinetic energy
\* lost from row i to row i+1, KE[i]-KE[i+1], per unit of altitude
\* descended, altitude[i]-altitude[i+1], divided by 4.184e9.
C5_DedzIsEnergyLostPerAltitudeDescended ==
    EnergyAdded =>
      LET df == frames[ret].df
      IN /\ Len(df.dedz) = Len(df.mass)
         /\ df.dedz[1] = 0
         /\ \A i \in 1..(Len(df.mass) - 1) :
              df.dedz[i + 1] =
                FDiv(FDiv(FSub(KE(df, i), KE(df, i + 1)),
                          FSub(df.altitude[i], df.altitude[i + 1])),
                     EnergyPerKm)

\* a descending, decelerating pair of rows whose dedz is positive
C5_Witness ==
    /\ EnergyAdded
    /\ LET df == frames[ret].df
       IN /\ Len(df.mass) >= 2
          /\ FGt(df.altitude[1], df.altitude[2])
          /\ FGt(KE(df, 1), KE(df, 2))
          /\ FGt(df.dedz[2], 0)

\* C8 as stated: a call of calculate_energy that returns leaves every table
\* as it was, the one passed to it included.
C8_CalculateEnergyLeavesItsArgumentUnchanged ==
    [][(op' = "calculate_energy" /\ raised' = "none") => frames' = frames]_vars

(***************************************************************************)
(* Properties of the tabular density.                                      *)
(***************************************************************************)
\* the linear interpolation of the table t at x, 0 above the last altitude
RECURSIVE Interpolate(_, _, _)
Interpolate(t, x, k) ==
    IF x > t.X[Len(t.X)] THEN 0
    ELSE IF x = t.X[k] THEN t.Y[k]
    ELSE IF x < t.X[k + 1]
    THEN FAdd(t.Y[k],
              FMul(FSub(t.Y[k + 1], t.Y[k]),
                   FDiv(FSub(x, t.X[k]), FSub(t.X[k + 1], t.X[k]))))
    ELSE Interpolate(t, x, k + 1)

\* C9 as stated: the function create_tabular_density returns gives the
\* linear interpolation of the loaded table, and 0 above its last altitude.
C9_TabularDensityInterpolatesTheTable ==
    (op = "tabular_density") => rhoq.rho = Interpolate(tabfn, rhoq.x, 1)

====
